---- MODULE Spec2Model ----
(***************************************************************************)
(* A model of the pesa-pay payment API (src/app.py): the payment table,    *)
(* the four endpoints create_payment, get_payment, refund_payment and      *)
(* list_payments, the request validators, and the step-by-step execution   *)
(* of refund_payment by concurrent request workers.                        *)
(*                                                                         *)
(* Text values whose characters matter to the code (card number, expiry,   *)
(* CVV) are sequences of one-character strings.  An optional JSON value is *)
(* a sequence of length 0 (absent / null) or 1.  Amounts are integers.     *)
(***************************************************************************)
EXTENDS Integers, Sequences, FiniteSets, TLC

\* ------------------------------------------------------------------ bounds

\* The payment table holds at most MaxPayments rows.
MaxPayments == 2
\* A create request differs from the reference request in at most this many fields.
MaxDeviations == 2

\* ------------------------------------------------------------------ text

Rep(c, n) == [i \in 1..n |-> c]

NL == "\n"

Digits == {"0", "1", "2", "3", "4", "5", "6", "7", "8", "9"}

AllDigits(s) == \A i \in 1..Len(s) : s[i] \in Digits

\* A pattern anchored with $ matches at the end of the text and also just
\* before one final newline.
BeforeDollar(s) ==
    {s} \cup (IF Len(s) > 0 /\ s[Len(s)] = NL THEN {SubSeq(s, 1, Len(s) - 1)} ELSE {})

\* re.match(r'^\d{16}$', s)
MatchCardNumber(s) == \E t \in BeforeDollar(s) : Len(t) = 16 /\ AllDigits(t)

\* re.match(r'^(0[1-9]|1[0-2])$', s)
MatchExpiryMonth(s) ==
    \E t \in BeforeDollar(s) :
        /\ Len(t) = 2
        /\ \/ t[1] = "0" /\ t[2] \in (Digits \ {"0"})
           \/ t[1] = "1" /\ t[2] \in {"0", "1", "2"}

\* re.match(r'^\d{4}$', s)
MatchExpiryYear(s) == \E t \in BeforeDollar(s) : Len(t) = 4 /\ AllDigits(t)

\* re.match(r'^\d{3,4}$', s)
MatchCvv(s) == \E t \in BeforeDollar(s) : Len(t) \in {3, 4} /\ AllDigits(t)

DigitValue(c) ==
    CASE c = "0" -> 0 [] c = "1" -> 1 [] c = "2" -> 2 [] c = "3" -> 3 [] c = "4" -> 4
      [] c = "5" -> 5 [] c = "6" -> 6 [] c = "7" -> 7 [] c = "8" -> 8 [] c = "9" -> 9

RECURSIVE DecimalValue(_)
DecimalValue(s) ==
    IF Len(s) = 0 THEN 0
    ELSE 10 * DecimalValue(SubSeq(s, 1, Len(s) - 1)) + DigitValue(s[Len(s)])

\* int(s) of a text that matched \d{4}: surrounding whitespace is ignored.
ParseInt(s) == IF s[Len(s)] = NL THEN DecimalValue(SubSeq(s, 1, Len(s) - 1)) ELSE DecimalValue(s)

\* str.startswith
StartsWith(s, p) == Len(s) >= Len(p) /\ SubSeq(s, 1, Len(p)) = p

\* s[-4:]
FirstFour(card_number) == SubSeq(card_number, 1, IF Len(card_number) < 4 THEN Len(card_number) ELSE 4)
get_last_four_digits(card_number) ==
    SubSeq(card_number, IF Len(card_number) < 4 THEN 1 ELSE Len(card_number) - 3, Len(card_number))

\* ------------------------------------------------------------------ enums

\* Currency: member names (the names equal the values).
Currency == {"USD", "UGX", "KES"}

\* PaymentStatus: member names; the table stores names, responses carry values.
PaymentStatus == {"PENDING", "SUCCEEDED", "FAILED", "REFUNDED"}

StatusValue(name) ==
    CASE name = "PENDING" -> "pending"
      [] name = "SUCCEEDED" -> "succeeded"
      [] name = "FAILED" -> "failed"
      [] name = "REFUNDED" -> "refunded"

\* datetime.now().year when the requests are served
CurrentYear == 2026

\* os.getenv("API_KEY", "sk_test_123")
ApiKey == "sk_test_123"

\* no comparison with the configured key
ValidApiKeyAlways(api_key) == TRUE
validate_api_key(api_key) == api_key = ApiKey

\* ------------------------------------------------------------------ validators

\* CardDetails.validate: "" when it returns, else the ValueError's message.
CardDetailsValidate(card) ==
    IF ~MatchCardNumber(card.card_number) THEN "Card number must be 16 digits"
    ELSE IF ~MatchExpiryMonth(card.expiry_month) THEN "Invalid expiry month"
    ELSE IF ~MatchExpiryYear(card.expiry_year) \/ ParseInt(card.expiry_year) < CurrentYear
        THEN "Invalid expiry year"
    ELSE IF ~MatchCvv(card.cvv) THEN "CVV must be 3 or 4 digits"
    ELSE ""

AmountRule(amount) == amount <= 0

\* PaymentRequest.validate: "" when it returns, else the ValueError's message.
\* the card checked before the amount
PaymentRequestValidateCardFirst(r) ==
    IF CardDetailsValidate(r.card_details) # "" THEN CardDetailsValidate(r.card_details)
    ELSE IF AmountRule(r.amount) THEN "Amount must be greater than 0"
    ELSE ""
PaymentRequestValidate(r) ==
    IF AmountRule(r.amount) THEN "Amount must be greater than 0"
    ELSE CardDetailsValidate(r.card_details)

\* The authorization stand-in of create_payment.
Authorize(card_number) ==
    IF StartsWith(card_number, <<"4", "1", "1", "1">>) THEN "SUCCEEDED" ELSE "FAILED"

\* ------------------------------------------------------------------ requests

Card4111 == <<"4", "1", "1", "1">> \o Rep("1", 12)
Card4111NL == Card4111 \o <<NL>>
Card5555 == Rep("5", 12) \o <<"4", "4", "4", "4">>
CardShort == <<"1", "2", "3">>

\* The request body and headers of the tests' valid_payment_data / auth_headers
\* (amounts scaled: 2 stands for the fixture's 1000.00).
ReferenceRequest ==
    [ key |-> ApiKey,
      amount |-> 2,
      currency |-> <<"USD">>,
      description |-> <<"Test payment">>,
      metadata |-> <<"order_id=12345">>,
      complete |-> TRUE,
      card_details |->
        [ card_number |-> Card4111,
          expiry_month |-> <<"1", "2">>,
          expiry_year |-> <<"2", "0", "2", "7">>,
          cvv |-> <<"1", "2", "3">> ] ]

Keys == {ApiKey, "invalid_key"}

CardDetailsInputs ==
    [ card_number : {Card4111, Card4111NL, Card5555, CardShort},
      expiry_month : {<<"1", "2">>, <<"1", "3">>},
      expiry_year : {<<"2", "0", "2", "7">>, <<"2", "0", "2", "0">>},
      cvv : {<<"1", "2", "3">>, <<"1", "2", "3", "4", "5">>} ]

\* currency <<>> is a body without the "currency" key; complete = FALSE is a
\* card_details object that lacks one of its five keys.
AllCreateRequests ==
    [ key : Keys,
      amount : {-1, 0, 2},
      currency : {<<>>, <<"USD">>, <<"EUR">>},
      description : {<<"Test payment">>},
      metadata : {<<"order_id=12345">>},
      complete : BOOLEAN,
      card_details : CardDetailsInputs ]

Differs(a, b) == IF a = b THEN 0 ELSE 1

Deviations(r) ==
    Differs(r.key, ReferenceRequest.key)
    + Differs(r.amount, ReferenceRequest.amount)
    + Differs(r.currency, ReferenceRequest.currency)
    + Differs(r.description, ReferenceRequest.description)
    + Differs(r.metadata, ReferenceRequest.metadata)
    + Differs(r.complete, ReferenceRequest.complete)
    + Differs(r.card_details.card_number, ReferenceRequest.card_details.card_number)
    + Differs(r.card_details.expiry_month, ReferenceRequest.card_details.expiry_month)
    + Differs(r.card_details.expiry_year, ReferenceRequest.card_details.expiry_year)
    + Differs(r.card_details.cvv, ReferenceRequest.card_details.cvv)

CreateRequests == {r \in AllCreateRequests : Deviations(r) <= MaxDeviations}

\* Payment ids in request paths: every id the table can hold and one it never holds.
PathIds == 1..(MaxPayments + 1)

\* A refund body: json = FALSE is a request without a JSON body; amount is the
\* optional "amount" member.
RefundBodies ==
    [json : {TRUE}, amount : {<<>>, <<-1>>, <<0>>, <<1>>, <<2>>, <<3>>}]
    \cup {[json |-> FALSE, amount |-> <<>>]}

\* A query argument: <<>> when absent, else its text, numeric or not.
QueryArgs ==
    {<<>>, <<[numeric |-> FALSE, value |-> 0]>>}
    \cup {<<[numeric |-> TRUE, value |-> n]>> : n \in -1..MaxPayments}

\* The request workers that serve refunds concurrently.
Workers == {"w1", "w2"}

\* ------------------------------------------------------------------ state

VARIABLES
    db,         \* the payment table: rows in insertion (rowid) order
    now,        \* the clock read by the created_at default
    req,        \* the request being answered, [op |-> "none"] between requests
    resp,       \* its response: [code, detail, body]
    before,     \* history: the table as it was when the request arrived
    origin,     \* history: origin[i] is the request that created db[i] and the row as inserted
    refunds,    \* history: refunds[i] counts the refund requests for db[i] answered with 200
    wpc,        \* wpc[w]: where worker w stands in refund_payment
    wreq,       \* wreq[w]: the refund request worker w serves
    wpayment,   \* wpayment[w]: the Payment loaded into worker w's session (<<>> or one row)
    wresp       \* wresp[w]: the response worker w returned

workers == <<wpc, wreq, wpayment, wresp>>

vars == <<db, now, req, resp, before, origin, refunds, wpc, wreq, wpayment, wresp>>

Response(code, detail, body) == [code |-> code, detail |-> detail, body |-> body]

NoRequest == [op |-> "none"]

NoResponse == Response(0, "", <<>>)

NoRefund == [id |-> 0, amount |-> <<>>]

\* datetime.isoformat
IsoFormat(t) == <<"T", t>>

\* The JSON object the endpoints build from a loaded Payment.
PaymentJson(p) ==
    [ id |-> p.id,
      amount |-> p.amount,
      currency |-> p.currency,
      status |-> StatusValue(p.status),
      created_at |-> IsoFormat(p.created_at),
      description |-> p.description,
      metadata |-> p.payment_metadata,
      last_four |-> p.last_four ]

\* db.session.get(Payment, payment_id): <<>> or the row
SessionGet(table, id) == SelectSeq(table, LAMBDA p : p.id = id)

\* Enum(Currency) checks no string on its way into the table (validate_strings
\* is off and the column has no CHECK constraint) and every value on its way
\* out: loading a row whose currency names no member raises LookupError.
Loads(p) == p.currency \in Currency

Init ==
    /\ db = <<>>
    /\ now = 0
    /\ req = NoRequest
    /\ resp = NoResponse
    /\ before = <<>>
    /\ origin = <<>>
    /\ refunds = <<>>
    /\ wpc = [w \in Workers |-> "idle"]
    /\ wreq = [w \in Workers |-> NoRefund]
    /\ wpayment = [w \in Workers |-> <<>>]
    /\ wresp = [w \in Workers |-> NoResponse]

\* A request arrives when the one before it has been answered.
Arrives(r) ==
    /\ req = NoRequest
    /\ req' = r
    /\ before' = db

\* ------------------------------------------------------------------ create_payment

\* str(uuid4()): an id no row has
NewId(table) == Len(table) + 1

\* status left to the column default
NewPaymentPending(r, id, t) ==
    [ id |-> id,
      amount |-> r.amount,
      currency |-> r.currency[1],
      status |-> "PENDING",
      created_at |-> t,
      description |-> r.description,
      payment_metadata |-> r.metadata,
      last_four |-> get_last_four_digits(r.card_details.card_number) ]
NewPayment(r, id, t) ==
    [ id |-> id,
      amount |-> r.amount,
      currency |-> r.currency[1],
      status |-> Authorize(r.card_details.card_number),
      created_at |-> t,
      description |-> r.description,
      payment_metadata |-> r.metadata,
      last_four |-> get_last_four_digits(r.card_details.card_number) ]

\* The response of create_payment when it stores nothing, NoResponse when it
\* goes on to add the payment.
CreateError(r) ==
    IF ~validate_api_key(r.key) THEN Response(400, "Invalid API key", <<>>)
    ELSE IF ~r.complete \/ r.currency = <<>>
        THEN Response(500, "Internal server error", <<>>)
    ELSE IF PaymentRequestValidate(r) # ""
        THEN Response(400, PaymentRequestValidate(r), <<>>)
    ELSE IF Authorize(r.card_details.card_number) # "SUCCEEDED"
        THEN Response(400, "Card declined", <<>>)
    ELSE NoResponse

\* The response built after the commit, from the row as it is reloaded: the
\* reload raises when the row does not load, and the handler answers 500 with
\* the row already committed.
CreatedResponse(p) ==
    IF Loads(p) THEN Response(201, "", <<PaymentJson(p)>>)
    ELSE Response(500, "Internal server error", <<>>)

CreatePayment(r) ==
    /\ Arrives([op |-> "create", body |-> r])
    /\ IF CreateError(r) # NoResponse
         THEN
           /\ resp' = CreateError(r)
           /\ UNCHANGED <<db, now, origin, refunds>>
         ELSE
           /\ Len(db) < MaxPayments
           /\ db' = Append(db, NewPayment(r, NewId(db), now))
           /\ now' = now + 1
           /\ resp' = CreatedResponse(SessionGet(db', NewId(db))[1])
           /\ origin' = Append(origin,
                [request |-> r, row |-> db'[Len(db')], returned |-> resp'.code = 201])
           /\ refunds' = Append(refunds, 0)
    /\ UNCHANGED workers

\* ------------------------------------------------------------------ get_payment

\* the status member's name instead of its value
GetResponseRawStatus(table, key, id) ==
    IF ~validate_api_key(key) THEN Response(400, "Invalid API key", <<>>)
    ELSE IF SessionGet(table, id) = <<>> THEN Response(404, "Payment not found", <<>>)
    ELSE IF ~Loads(SessionGet(table, id)[1]) THEN Response(500, "Internal server error", <<>>)
    ELSE Response(200, "",
            <<[PaymentJson(SessionGet(table, id)[1]) EXCEPT !.status = SessionGet(table, id)[1].status]>>)
GetResponse(table, key, id) ==
    IF ~validate_api_key(key) THEN Response(400, "Invalid API key", <<>>)
    ELSE IF SessionGet(table, id) = <<>> THEN Response(404, "Payment not found", <<>>)
    ELSE IF ~Loads(SessionGet(table, id)[1]) THEN Response(500, "Internal server error", <<>>)
    ELSE Response(200, "", <<PaymentJson(SessionGet(table, id)[1])>>)

GetPayment(key, id) ==
    /\ Arrives([op |-> "get", key |-> key, id |-> id])
    /\ resp' = GetResponse(db, key, id)
    /\ UNCHANGED <<db, now, origin, refunds>>
    /\ UNCHANGED workers

\* ------------------------------------------------------------------ refund_payment

\* payment.status != PaymentStatus.SUCCEEDED
NotRefundableNever(p) == FALSE
NotRefundable(p) == p.status # "SUCCEEDED"

\* refund_amount and refund_amount > payment.amount
ExceedsPaymentNever(amount, p) == FALSE
ExceedsPaymentUnlessFull(amount, p) == amount # <<>> /\ amount[1] # p.amount
ExceedsPayment(amount, p) == amount # <<>> /\ amount[1] # 0 /\ amount[1] > p.amount

\* payment.status = PaymentStatus.REFUNDED, flushed by commit as
\* UPDATE payment SET status = 'REFUNDED' WHERE id = :id
UpdateStatusNoWhere(table, id, status) ==
    [i \in 1..Len(table) |-> [table[i] EXCEPT !.status = status]]
UpdateStatusAndAmount(table, id, status) ==
    [i \in 1..Len(table) |->
        IF table[i].id = id THEN [table[i] EXCEPT !.status = status, !.amount = 0] ELSE table[i]]
UpdateStatus(table, id, status) ==
    [i \in 1..Len(table) |->
        IF table[i].id = id THEN [table[i] EXCEPT !.status = status] ELSE table[i]]

\* The response of refund_payment when it changes nothing, NoResponse when it
\* goes on to set the status.
\* the amount checked before the status
RefundErrorAmountFirst(table, key, id, body) ==
    IF ~validate_api_key(key) THEN Response(400, "Invalid API key", <<>>)
    ELSE IF ~body.json THEN Response(500, "Internal server error", <<>>)
    ELSE IF SessionGet(table, id) = <<>> THEN Response(404, "Payment not found", <<>>)
    ELSE IF ~Loads(SessionGet(table, id)[1]) THEN Response(500, "Internal server error", <<>>)
    ELSE IF ExceedsPayment(body.amount, SessionGet(table, id)[1])
        THEN Response(400, "Refund amount exceeds payment amount", <<>>)
    ELSE IF NotRefundable(SessionGet(table, id)[1])
        THEN Response(400, "Payment cannot be refunded", <<>>)
    ELSE NoResponse
RefundError(table, key, id, body) ==
    IF ~validate_api_key(key) THEN Response(400, "Invalid API key", <<>>)
    ELSE IF ~body.json THEN Response(500, "Internal server error", <<>>)
    ELSE IF SessionGet(table, id) = <<>> THEN Response(404, "Payment not found", <<>>)
    ELSE IF ~Loads(SessionGet(table, id)[1]) THEN Response(500, "Internal server error", <<>>)
    ELSE IF NotRefundable(SessionGet(table, id)[1])
        THEN Response(400, "Payment cannot be refunded", <<>>)
    ELSE IF ExceedsPayment(body.amount, SessionGet(table, id)[1])
        THEN Response(400, "Refund amount exceeds payment amount", <<>>)
    ELSE NoResponse

\* History: one more refund of the row with this id was answered with 200.
CountRefund(table, counts, id) ==
    [i \in 1..Len(counts) |-> IF table[i].id = id THEN counts[i] + 1 ELSE counts[i]]

RefundPayment(key, id, body) ==
    /\ Arrives([op |-> "refund", key |-> key, id |-> id, body |-> body])
    /\ IF RefundError(db, key, id, body) # NoResponse
         THEN
           /\ resp' = RefundError(db, key, id, body)
           /\ UNCHANGED <<db, refunds>>
         ELSE
           /\ db' = UpdateStatus(db, id, "REFUNDED")
           /\ resp' = Response(200, "", <<PaymentJson(SessionGet(db', id)[1])>>)
           /\ refunds' = CountRefund(db, refunds, id)
    /\ UNCHANGED <<now, origin>>
    /\ UNCHANGED workers

\* ------------------------------------------------------------------ list_payments

DefaultLimit == 10
DefaultOffset == 0

\* SELECT ... FROM payment LIMIT :limit OFFSET :offset on the rowid-ordered
\* table: a negative LIMIT is no limit, a negative OFFSET is 0.
SelectOffsetLimit(table, offset, limit) ==
    LET first == (IF offset < 0 THEN 0 ELSE offset) + 1
        last == IF limit < 0 \/ first + limit - 1 > Len(table)
                THEN Len(table) ELSE first + limit - 1
    IN  SubSeq(table, first, last)

ListResponse(table, key, limit, offset) ==
    IF ~validate_api_key(key) THEN Response(400, "Invalid API key", <<>>)
    ELSE IF limit # <<>> /\ ~limit[1].numeric
        THEN Response(400, "invalid literal for int() with base 10", <<>>)
    ELSE IF offset # <<>> /\ ~offset[1].numeric
        THEN Response(400, "invalid literal for int() with base 10", <<>>)
    ELSE
        LET l == IF limit = <<>> THEN DefaultLimit ELSE limit[1].value
            o == IF offset = <<>> THEN DefaultOffset ELSE offset[1].value
            rows == SelectOffsetLimit(table, o, l)
        IN  IF \E i \in 1..Len(rows) : ~Loads(rows[i])
            THEN Response(500, "Internal server error", <<>>)
            ELSE Response(200, "", [i \in 1..Len(rows) |-> PaymentJson(rows[i])])

ListPayments(key, limit, offset) ==
    /\ Arrives([op |-> "list", key |-> key, limit |-> limit, offset |-> offset])
    /\ resp' = ListResponse(db, key, limit, offset)
    /\ UNCHANGED <<db, now, origin, refunds>>
    /\ UNCHANGED workers

\* ------------------------------------------------------------------ refund_payment, step by step

\* The refund requests the concurrent workers serve: a valid key and a JSON body.
WorkerAmounts == {<<>>, <<1>>, <<3>>}

\* validate_api_key, request.json, data.get('amount')
RefundBegin(w, id, amount) ==
    /\ wpc[w] = "idle"
    /\ wpc' = [wpc EXCEPT ![w] = "get"]
    /\ wreq' = [wreq EXCEPT ![w] = [id |-> id, amount |-> amount]]
    /\ UNCHANGED <<db, now, req, resp, before, origin, refunds, wpayment, wresp>>

\* payment = db.session.get(Payment, payment_id); if not payment: 404
RefundGet(w) ==
    /\ wpc[w] = "get"
    /\ wpayment' = [wpayment EXCEPT ![w] = SessionGet(db, wreq[w].id)]
    /\ IF wpayment'[w] = <<>>
         THEN /\ wresp' = [wresp EXCEPT ![w] = Response(404, "Payment not found", <<>>)]
              /\ wpc' = [wpc EXCEPT ![w] = "done"]
         ELSE IF ~Loads(wpayment'[w][1])
         THEN /\ wresp' = [wresp EXCEPT ![w] = Response(500, "Internal server error", <<>>)]
              /\ wpc' = [wpc EXCEPT ![w] = "done"]
         ELSE /\ wpc' = [wpc EXCEPT ![w] = "status"]
              /\ UNCHANGED wresp
    /\ UNCHANGED <<db, now, req, resp, before, origin, refunds, wreq>>

\* if payment.status != PaymentStatus.SUCCEEDED: 400
RefundCheckStatus(w) ==
    /\ wpc[w] = "status"
    /\ IF NotRefundable(wpayment[w][1])
         THEN /\ wresp' = [wresp EXCEPT ![w] = Response(400, "Payment cannot be refunded", <<>>)]
              /\ wpc' = [wpc EXCEPT ![w] = "done"]
         ELSE /\ wpc' = [wpc EXCEPT ![w] = "amount"]
              /\ UNCHANGED wresp
    /\ UNCHANGED <<db, now, req, resp, before, origin, refunds, wreq, wpayment>>

\* if refund_amount and refund_amount > payment.amount: 400
RefundCheckAmount(w) ==
    /\ wpc[w] = "amount"
    /\ IF ExceedsPayment(wreq[w].amount, wpayment[w][1])
         THEN /\ wresp' = [wresp EXCEPT ![w] =
                    Response(400, "Refund amount exceeds payment amount", <<>>)]
              /\ wpc' = [wpc EXCEPT ![w] = "done"]
         ELSE /\ wpc' = [wpc EXCEPT ![w] = "set"]
              /\ UNCHANGED wresp
    /\ UNCHANGED <<db, now, req, resp, before, origin, refunds, wreq, wpayment>>

\* payment.status = PaymentStatus.REFUNDED, on the session's object
RefundSetStatus(w) ==
    /\ wpc[w] = "set"
    /\ wpayment' = [wpayment EXCEPT ![w] = <<[wpayment[w][1] EXCEPT !.status = "REFUNDED"]>>]
    /\ wpc' = [wpc EXCEPT ![w] = "commit"]
    /\ UNCHANGED <<db, now, req, resp, before, origin, refunds, wreq, wresp>>

\* db.session.commit() writes the changed status; the response is built from
\* the row as reloaded after the commit.
RefundCommit(w) ==
    /\ wpc[w] = "commit"
    /\ db' = UpdateStatus(db, wreq[w].id, wpayment[w][1].status)
    /\ wresp' = [wresp EXCEPT ![w] =
            Response(200, "", <<PaymentJson(SessionGet(db', wreq[w].id)[1])>>)]
    /\ refunds' = CountRefund(db, refunds, wreq[w].id)
    /\ wpc' = [wpc EXCEPT ![w] = "done"]
    /\ UNCHANGED <<now, req, resp, before, origin, wreq, wpayment>>

\* ------------------------------------------------------------------ specification

\* The response reaches the client; the next request can arrive.
Deliver ==
    /\ req # NoRequest
    /\ req' = NoRequest
    /\ resp' = NoResponse
    /\ before' = db
    /\ UNCHANGED <<db, now, origin, refunds>>
    /\ UNCHANGED workers

Create == \E r \in CreateRequests : CreatePayment(r)

\* Ids are str(uuid4()): a request names an id the API has returned, or an id
\* no row has; the id of a row that no response has carried cannot be named.
Returned(id) == \A i \in 1..Len(origin) : origin[i].row.id = id => origin[i].returned

Get == \E key \in Keys, id \in PathIds : Returned(id) /\ GetPayment(key, id)

Refund ==
    \E key \in Keys, id \in PathIds, body \in RefundBodies :
        Returned(id) /\ RefundPayment(key, id, body)

List == \E key \in Keys, limit \in QueryArgs, offset \in QueryArgs : ListPayments(key, limit, offset)

Next == Create \/ Get \/ Refund \/ List \/ Deliver

\* Requests served one at a time, each handler from its first line to its response.
Spec == Init /\ [][Next]_vars

\* The reference create request with either amount.
CreateReference == \E a \in {1, 2} : CreatePayment([ReferenceRequest EXCEPT !.amount = a])

WorkerBegin ==
    \E w \in Workers, id \in PathIds, amount \in WorkerAmounts :
        Returned(id) /\ RefundBegin(w, id, amount)

WorkerStep ==
    \E w \in Workers :
        \/ RefundGet(w)
        \/ RefundCheckStatus(w)
        \/ RefundCheckAmount(w)
        \/ RefundSetStatus(w)
        \/ RefundCommit(w)

NextConcurrent == CreateReference \/ Deliver \/ WorkerBegin \/ WorkerStep

\* Two workers serve one refund request each, their steps interleaved in any order.
SpecConcurrent == Init /\ [][NextConcurrent]_vars

\* ------------------------------------------------------------------ properties

HasRow(table, id) == \E i \in 1..Len(table) : table[i].id = id

RowOf(table, id) == table[CHOOSE i \in 1..Len(table) : table[i].id = id]

\* An authenticated refund request with a JSON object body, for a stored payment.
RefundOfStored ==
    /\ req.op = "refund"
    /\ req.key = ApiKey
    /\ req.body.json
    /\ HasRow(before, req.id)

\* A create request whose body the handler can read in full and that the
\* validators accept.
PassesValidation ==
    /\ req.op = "create"
    /\ req.body.key = ApiKey
    /\ req.body.complete
    /\ req.body.currency # <<>>
    /\ PaymentRequestValidate(req.body) = ""

\* C1: when two workers have each answered a refund request for the same
\* payment id, at most one of the two answers is 200.
C1_ConcurrentRefundsExclusive ==
    \A v \in Workers, w \in Workers :
        (v # w /\ wpc[v] = "done" /\ wpc[w] = "done" /\ wreq[v].id = wreq[w].id)
            => ~(wresp[v].code = 200 /\ wresp[w].code = 200)

\* C2: a refund of a stored SUCCEEDED payment with no amount or an amount <=
\* the stored amount is answered 200 and leaves the payment REFUNDED; a refund
\* of a payment that is already REFUNDED is answered 400 'Payment cannot be
\* refunded', whatever its amount, and leaves it REFUNDED; no payment has two
\* refunds answered 200.
C2_RefundedAtMostOnce ==
    /\ RefundOfStored =>
        /\ ( /\ RowOf(before, req.id).status = "SUCCEEDED"
             /\ \/ req.body.amount = <<>>
                \/ req.body.amount[1] <= RowOf(before, req.id).amount )
            => /\ resp.code = 200
               /\ resp.body[1].status = "refunded"
               /\ RowOf(db, req.id).status = "REFUNDED"
        /\ RowOf(before, req.id).status = "REFUNDED"
            => /\ resp = Response(400, "Payment cannot be refunded", <<>>)
               /\ RowOf(db, req.id).status = "REFUNDED"
    /\ \A i \in 1..Len(refunds) : refunds[i] <= 1

\* C2 witness: a second refund of a refunded payment has been rejected.
C2_Witness ==
    /\ RefundOfStored
    /\ RowOf(before, req.id).status = "REFUNDED"
    /\ refunds[req.id] = 1
    /\ resp.code = 400

\* C3: a refund of a stored SUCCEEDED payment with an amount above the stored
\* amount is answered 400 'Refund amount exceeds payment amount' and leaves
\* the table as it was, the payment still SUCCEEDED.
C3_OverRefundRejected ==
    ( /\ RefundOfStored
      /\ RowOf(before, req.id).status = "SUCCEEDED"
      /\ req.body.amount # <<>>
      /\ req.body.amount[1] > RowOf(before, req.id).amount )
        => /\ resp = Response(400, "Refund amount exceeds payment amount", <<>>)
           /\ db = before
           /\ RowOf(db, req.id).status = "SUCCEEDED"

\* C3 witness: an over-refund of a SUCCEEDED payment has been answered.
C3_Witness ==
    /\ RefundOfStored
    /\ RowOf(before, req.id).status = "SUCCEEDED"
    /\ req.body.amount = <<3>>
    /\ resp.code = 400

\* C4: every create request with a valid API key, complete card details and
\* an amount <= 0 is answered 400 'Amount must be greater than 0' and leaves
\* the table as it was.
C4_NonPositiveAmountRejected ==
    ( /\ req.op = "create"
      /\ req.body.key = ApiKey
      /\ req.body.complete
      /\ req.body.amount <= 0 )
        => /\ resp = Response(400, "Amount must be greater than 0", <<>>)
           /\ db = before

\* C5 as stated: every create request that passes validation is answered 201
\* with one new SUCCEEDED row when the card number starts with 4111, and 400
\* 'Card declined' with nothing stored otherwise.
C5_AuthorizedIffPrefix ==
    PassesValidation =>
        IF StartsWith(req.body.card_details.card_number, <<"4", "1", "1", "1">>)
        THEN /\ resp.code = 201
             /\ Len(db) = Len(before) + 1
             /\ SubSeq(db, 1, Len(before)) = before
             /\ db[Len(db)].status = "SUCCEEDED"
             /\ resp.body[1].status = "succeeded"
        ELSE /\ resp = Response(400, "Card declined", <<>>)
             /\ db = before

\* C5 for the requests whose currency is USD, UGX or KES: the same outcome
\* holds for each of them.
C5_AuthorizedIffPrefixKnownCurrency ==
    (PassesValidation /\ req.body.currency[1] \in {"USD", "UGX", "KES"}) =>
        IF StartsWith(req.body.card_details.card_number, <<"4", "1", "1", "1">>)
        THEN /\ resp.code = 201
             /\ Len(db) = Len(before) + 1
             /\ SubSeq(db, 1, Len(before)) = before
             /\ db[Len(db)].status = "SUCCEEDED"
             /\ resp.body[1].status = "succeeded"
        ELSE /\ resp = Response(400, "Card declined", <<>>)
             /\ db = before

\* C5 witness: a valid request with another card prefix has been declined
\* while a payment made with a 4111 card is stored.
C5_Witness ==
    /\ PassesValidation
    /\ req.body.card_details.card_number = Card5555
    /\ resp.code = 400
    /\ Len(db) = 1

\* C6: every stored payment is SUCCEEDED or REFUNDED.
C6_NoPendingOrFailedStored ==
    \A i \in 1..Len(db) : db[i].status \in {"SUCCEEDED", "REFUNDED"}

\* C6 witness: a create has been declined while the table holds a SUCCEEDED
\* and a REFUNDED payment.
C6_Witness ==
    /\ req.op = "create"
    /\ resp = Response(400, "Card declined", <<>>)
    /\ Len(db) = 2
    /\ db[1].status = "REFUNDED"
    /\ db[2].status = "SUCCEEDED"

\* C7: a request changes the status of a stored payment only from SUCCEEDED
\* to REFUNDED, and only as a refund of that id answered 200; a REFUNDED
\* payment stays REFUNDED, and no request removes a row.
C7_StatusOnlyForward ==
    /\ Len(db) >= Len(before)
    /\ \A i \in 1..Len(before) :
        /\ db[i].id = before[i].id
        /\ before[i].status = "REFUNDED" => db[i].status = "REFUNDED"
        /\ db[i].status # before[i].status
            => /\ before[i].status = "SUCCEEDED"
               /\ db[i].status = "REFUNDED"
               /\ req.op = "refund"
               /\ req.id = db[i].id
               /\ resp.code = 200

\* C7 witness: a refund has moved one of two payments to REFUNDED.
C7_Witness ==
    /\ req.op = "refund"
    /\ resp.code = 200
    /\ Len(db) = 2
    /\ before[2].status = "SUCCEEDED"
    /\ db[2].status = "REFUNDED"
    /\ db[1].status = "SUCCEEDED"

\* C8: every stored payment has the id, amount, currency, created_at,
\* description, metadata and last_four it was inserted with; a refund answered
\* 200 changes the status of its payment and nothing else in the table.
C8_OnlyStatusChanges ==
    /\ Len(origin) = Len(db)
    /\ \A i \in 1..Len(db) :
        /\ db[i].id = origin[i].row.id
        /\ db[i].amount = origin[i].row.amount
        /\ db[i].currency = origin[i].row.currency
        /\ db[i].created_at = origin[i].row.created_at
        /\ db[i].description = origin[i].row.description
        /\ db[i].payment_metadata = origin[i].row.payment_metadata
        /\ db[i].last_four = origin[i].row.last_four
    /\ (req.op = "refund" /\ resp.code = 200)
        => /\ Len(db) = Len(before)
           /\ \A i \in 1..Len(db) :
                IF db[i].id = req.id
                THEN db[i] = [before[i] EXCEPT !.status = "REFUNDED"]
                ELSE db[i] = before[i]

\* C8 witness: a partial refund (amount 1 of 2) has been answered 200.
C8_Witness ==
    /\ req.op = "refund"
    /\ resp.code = 200
    /\ req.body.amount = <<1>>
    /\ RowOf(db, req.id).amount = 2
    /\ Len(db) = 2

\* C9: the last_four of every stored payment has 4 characters, the final 4
\* of the card number in the request that created it.
C9_LastFourOfSubmittedCard ==
    \A i \in 1..Len(db) :
        LET card == origin[i].request.card_details.card_number
        IN  /\ Len(db[i].last_four) = 4
            /\ \A k \in 1..4 : db[i].last_four[k] = card[Len(card) - 4 + k]

\* C9 witness: payments made with two different card numbers are stored.
C9_Witness ==
    /\ Len(db) = 2
    /\ origin[1].request.card_details.card_number = Card4111NL
    /\ origin[2].request.card_details.card_number = Card4111
    /\ db[1].last_four # db[2].last_four

\* C10: right after a create answered 201, a get of the returned id with the
\* API key is answered 200 with the same record, field by field.
C10_CreateThenGet ==
    (req.op = "create" /\ resp.code = 201)
        => LET got == GetResponse(db, ApiKey, resp.body[1].id)
           IN  /\ got.code = 200
               /\ \A f \in {"id", "amount", "currency", "status", "created_at",
                            "description", "metadata", "last_four"} :
                    got.body[1][f] = resp.body[1][f]

\* C10 witness: a second payment has just been created.
C10_Witness ==
    /\ req.op = "create"
    /\ resp.code = 201
    /\ resp.body[1].id = 2
    /\ db[1].status = "REFUNDED"

Min(a, b) == IF a < b THEN a ELSE b

Max(a, b) == IF a > b THEN a ELSE b

\* An authenticated list request whose limit and offset are each absent or a
\* non-negative integer.
ListNonNegative ==
    /\ req.op = "list"
    /\ req.key = ApiKey
    /\ \A a \in {req.limit, req.offset} : a = <<>> \/ (a[1].numeric /\ a[1].value >= 0)

\* C11: a list request with non-negative limit and offset (10 and 0 when
\* absent) is answered 200 with the payments at positions offset+1 ..
\* offset+limit of the table in insertion order, min(limit, max(0, n - offset))
\* of them when n are stored, and the page at offset+limit continues where
\* this one ends, without repeating or skipping a payment.
C11_ListIsOffsetLimitSlice ==
    ListNonNegative =>
        LET limit == IF req.limit = <<>> THEN 10 ELSE req.limit[1].value
            offset == IF req.offset = <<>> THEN 0 ELSE req.offset[1].value
            n == Len(before)
            count == Min(limit, Max(0, n - offset))
            following == ListResponse(db, ApiKey, req.limit,
                            <<[numeric |-> TRUE, value |-> offset + limit]>>)
        IN  /\ resp.code = 200
            /\ db = before
            /\ Len(resp.body) = count
            /\ \A k \in 1..count : resp.body[k] = PaymentJson(before[offset + k])
            /\ following.code = 200
            /\ Len(following.body) = Min(limit, Max(0, n - offset - limit))
            /\ \A k \in 1..Len(following.body) :
                    following.body[k].id = before[offset + count + k].id

\* C12: a list request whose limit or offset is negative or not a number is
\* answered 400 and carries no payment record.
C12_BadPageArgumentRejected ==
    ( /\ req.op = "list"
      /\ \E a \in {req.limit, req.offset} :
            a # <<>> /\ (~a[1].numeric \/ a[1].value < 0) )
        => /\ resp.code = 400
           /\ resp.body = <<>>

\* C13: with the API key, a get or a refund of an id that no stored payment
\* has is answered 404 'Payment not found' and leaves the table as it was.
C13_UnknownIdNotFound ==
    ( /\ req.op \in {"get", "refund"}
      /\ req.key = ApiKey
      /\ ~HasRow(before, req.id) )
        => /\ resp = Response(404, "Payment not found", <<>>)
           /\ db = before

\* The X-API-Key header of the request being answered.
RequestKey == IF req.op = "create" THEN req.body.key ELSE req.key

\* C14: a create, get, refund or list request whose key is not the configured
\* key is answered 400 'Invalid API key' with no payment data and leaves the
\* table as it was, whatever else the request holds.
C14_InvalidKeyRejectedFirst ==
    (req.op \in {"create", "get", "refund", "list"} /\ RequestKey # ApiKey)
        => /\ resp = Response(400, "Invalid API key", <<>>)
           /\ db = before

\* C14 witness: a refund with the wrong key, of an id no payment has and
\* without a JSON body, has been answered 400 while a payment is stored.
C14_Witness ==
    /\ req.op = "refund"
    /\ req.key = "invalid_key"
    /\ ~HasRow(before, req.id)
    /\ ~req.body.json
    /\ resp.code = 400
    /\ Len(db) = 1

\* C15: a create answered 201, and a get answered 200 for a payment that has
\* not been refunded, carry the status 'completed', and the stored payment
\* carries COMPLETED, a member of the status enumeration.
C15_CreatedIsCompleted ==
    /\ (req.op = "create" /\ resp.code = 201)
        => /\ resp.body[1].status = "completed"
           /\ db[Len(db)].status = "COMPLETED"
           /\ "COMPLETED" \in PaymentStatus
    /\ (req.op = "get" /\ resp.code = 200 /\ refunds[req.id] = 0)
        => /\ resp.body[1].status = "completed"
           /\ RowOf(db, req.id).status = "COMPLETED"

\* C16: every stored payment has a currency among USD, UGX and KES and an
\* amount above 0, and a create request with any other currency leaves the
\* table as it was.
C16_StoredCurrencyAndAmount ==
    /\ \A i \in 1..Len(db) :
        /\ db[i].currency \in {"USD", "UGX", "KES"}
        /\ db[i].amount > 0
    /\ ( /\ req.op = "create"
         /\ req.body.currency # <<>>
         /\ req.body.currency[1] \notin {"USD", "UGX", "KES"} )
        => db = before

\* A create request that reaches the validators: the API key, and every key
\* the handler reads from the body.
ReachesValidation ==
    /\ req.op = "create"
    /\ req.body.key = ApiKey
    /\ req.body.complete
    /\ req.body.currency # <<>>

\* C17: a create request that reaches validation and breaks one or more of
\* the rules amount, card number, expiry month, expiry year, CVV is answered
\* 400 with the message of the first rule it breaks, in that order; the five
\* messages differ; the table stays as it was.
C17_FirstBrokenRuleReported ==
    ReachesValidation =>
        LET card == req.body.card_details
            broken == << req.body.amount <= 0,
                         ~MatchCardNumber(card.card_number),
                         ~MatchExpiryMonth(card.expiry_month),
                         ~MatchExpiryYear(card.expiry_year)
                            \/ ParseInt(card.expiry_year) < CurrentYear,
                         ~MatchCvv(card.cvv) >>
            message == << "Amount must be greater than 0",
                          "Card number must be 16 digits",
                          "Invalid expiry month",
                          "Invalid expiry year",
                          "CVV must be 3 or 4 digits" >>
            first == CHOOSE i \in 1..5 : broken[i] /\ \A j \in 1..(i - 1) : ~broken[j]
        IN  /\ \A i \in 1..5 : \A j \in 1..5 : i # j => message[i] # message[j]
            /\ (\E i \in 1..5 : broken[i])
                => /\ resp = Response(400, message[first], <<>>)
                   /\ db = before

\* C17 witness: a request with amount 0 and a 3-digit card number has been
\* answered with the amount message while a payment is stored.
C17_Witness ==
    /\ ReachesValidation
    /\ req.body.amount = 0
    /\ req.body.card_details.card_number = CardShort
    /\ resp = Response(400, "Amount must be greater than 0", <<>>)
    /\ Len(db) = 1

\* C18: an authenticated refund request with a JSON object body is checked
\* for not-found first, then status, then amount: for an id no payment has
\* it is answered 404 whatever the amount, and for a stored payment that is
\* not SUCCEEDED it is answered 400 'Payment cannot be refunded' also when
\* the amount exceeds the stored amount; the table stays as it was.
C18_RefundCheckOrder ==
    (req.op = "refund" /\ req.key = ApiKey /\ req.body.json) =>
        /\ ~HasRow(before, req.id)
            => /\ resp = Response(404, "Payment not found", <<>>)
               /\ db = before
        /\ (HasRow(before, req.id) /\ RowOf(before, req.id).status # "SUCCEEDED")
            => /\ resp = Response(400, "Payment cannot be refunded", <<>>)
               /\ db = before

\* C18 witness: a refund of 3 for a REFUNDED payment of 2 has been answered
\* 'Payment cannot be refunded'.
C18_Witness ==
    /\ RefundOfStored
    /\ RowOf(before, req.id).status = "REFUNDED"
    /\ RowOf(before, req.id).amount = 2
    /\ req.body.amount = <<3>>
    /\ resp = Response(400, "Payment cannot be refunded", <<>>)

\* C19: a create or a refund that is answered 500 carries the generic detail
\* and leaves the table with the rows and statuses it had when the request
\* arrived.
C19_InternalFailureRollsBack ==
    (req.op \in {"create", "refund"} /\ resp.code = 500)
        => /\ resp = Response(500, "Internal server error", <<>>)
           /\ db = before

\* C20: an authenticated refund of a stored SUCCEEDED payment with an amount
\* that is 0, negative or below the stored amount is answered as the refund
\* without an amount is: 200 with the whole payment REFUNDED, the stored
\* amount and every other field as they were, no field holding the refunded
\* amount, and every further refund of the payment answered 400 'Payment
\* cannot be refunded'.
C20_PartialRefundIsWholeRefund ==
    ( /\ RefundOfStored
      /\ RowOf(before, req.id).status = "SUCCEEDED"
      /\ req.body.amount # <<>>
      /\ req.body.amount[1] < RowOf(before, req.id).amount )
        => LET refunded == [RowOf(before, req.id) EXCEPT !.status = "REFUNDED"]
           IN  /\ resp = Response(200, "", <<PaymentJson(refunded)>>)
               /\ RefundError(before, req.key, req.id, [json |-> TRUE, amount |-> <<>>])
                    = NoResponse
               /\ Len(db) = Len(before)
               /\ \A i \in 1..Len(db) :
                    db[i] = IF before[i].id = req.id THEN refunded ELSE before[i]
               /\ \A body \in RefundBodies :
                    body.json => RefundError(db, req.key, req.id, body)
                                    = Response(400, "Payment cannot be refunded", <<>>)

\* C20 witness: a refund of -1 for a SUCCEEDED payment of 2 has been answered
\* 200 and the payment is REFUNDED with amount 2.
C20_Witness ==
    /\ RefundOfStored
    /\ RowOf(before, req.id).status = "SUCCEEDED"
    /\ req.body.amount = <<-1>>
    /\ resp.code = 200
    /\ RowOf(db, req.id).status = "REFUNDED"
    /\ RowOf(db, req.id).amount = 2

====
